---- MODULE Spec2Model ----
(***************************************************************************)
(* Stateless LLM-to-MCP test runner (direct_mcp_stateless.js).             *)
(*                                                                         *)
(* One run of main() over a batch of test files: for each file a new       *)
(* runner connects to the tool provider, discovers the tools, asks the     *)
(* planner for a plan, parses it, executes the plan step by step and       *)
(* finalizes the report; main counts the test and closes the connection.   *)
(* The process ends after the summary, in a fatal handler or on SIGINT.    *)
(*                                                                         *)
(* Representation of JavaScript values:                                    *)
(*   - an optional value (a field that may be undefined) is a set with at  *)
(*     most one element: {} is undefined, {v} is the value v;              *)
(*   - a text is a non-empty sequence of lines, a line is a sequence of    *)
(*     words separated by single spaces; the empty string is <<<<>>>>;     *)
(*   - a tool name is a sequence of name parts, the part "mcp_" being the  *)
(*     four characters the runner strips and prepends.                     *)
(***************************************************************************)
EXTENDS Integers, Sequences, FiniteSets, TLC

\* ------------------------------------------------------------- bounds
MaxPlanLen == 2
MaxLines == 2
MaxFiles == 2

\* ------------------------------------------------------------- helpers
Last(s) == s[Len(s)]

RECURSIVE Flatten(_)
Flatten(ss) == IF ss = <<>> THEN <<>> ELSE Head(ss) \o Flatten(Tail(ss))

Min(S) == CHOOSE x \in S : \A y \in S : x <= y

\* ------------------------------------------------------------- text
EmptyString == << <<>> >>

\* String.prototype.toLowerCase on one word
ToLowerCase(w) ==
    CASE w = "FALSE" -> "false"
      [] w = "False" -> "false"
      [] w = "TRUE" -> "true"
      [] w = "### RESULT" -> "### result"
      [] w = "### Result" -> "### result"
      [] OTHER -> w

\* the words the pattern /### Result/i matches
IsResultMarker(w) == ToLowerCase(w) = "### result"

\* Array.prototype.join('\n') over texts: the lines of all texts in order
JoinNewline(texts) == IF texts = <<>> THEN EmptyString ELSE Flatten(texts)

\* A content block of a tool result: {type, text}
TextBlock(t) == [type |-> "text", text |-> t]
ImageBlock == [type |-> "image", text |-> EmptyString]

\* Reading order of two positions <<line, word>> of a text
Before(p, q) == p[1] < q[1] \/ (p[1] = q[1] /\ p[2] <= q[2])

\* The group captured when the pattern /### Result\s+([^\n]+)/i is tried at the
\* marker at word j of line l, as an optional value.  A marker followed by words
\* on its line captures the rest of the line; a marker that ends its line
\* captures the next non-empty line (\s+ runs over the line breaks); a marker
\* with nothing after it does not match.
CaptureAt(text, l, j) ==
    IF j < Len(text[l])
    THEN {SubSeq(text[l], j + 1, Len(text[l]))}
    ELSE LET later == { m \in (l + 1)..Len(text) : text[m] # <<>> }
         IN IF later = {} THEN {} ELSE {text[Min(later)]}

\* textBlock.match(/### Result\s+([^\n]+)/i): group 1 of the leftmost match
MatchResult(text) ==
    LET positions == UNION { { <<l, j>> : j \in 1..Len(text[l]) } : l \in 1..Len(text) }
        hits == { p \in positions : /\ IsResultMarker(text[p[1]][p[2]])
                                    /\ CaptureAt(text, p[1], p[2]) # {} }
    IN IF hits = {} THEN {}
       ELSE LET first == CHOOSE p \in hits : \A q \in hits : Before(p, q)
            IN CaptureAt(text, first[1], first[2])

\* match[1].trim().toLowerCase() === 'false'
ValueIsFalse(capture) == [k \in 1..Len(capture) |-> ToLowerCase(capture[k])] = <<"false">>

\* ------------------------------------------------------------- provider results
\* config.reporting.screenshotsDir
screenshotsDir == "mcp-workspace/test-screenshots"

\* error.message of the errors the runner handles: a fixed text and, for the
\* error envelope, the JSON text of the payload
ErrorMessage(msg, payload) == [msg |-> msg, payload |-> payload]

\* JSON.stringify(result.content): the whole content, block by block
JSONStringifyContent(content) == content

\* result.content.find(c => c.type === 'text')?.text, as an optional value
FirstTextBlock(content) ==
    LET idx == { k \in 1..Len(content) : content[k].type = "text" }
    IN IF idx = {} THEN {} ELSE {content[Min(idx)].text}

\* if (result.isError): the protocol-level error envelope
IsErrorEnvelope(result) == result.isError

\* the first text block carries a '### Result' marker whose value is 'false'
ReturnsFalse(result) ==
    \E textBlock \in FirstTextBlock(result.content) :
        /\ textBlock # EmptyString
        /\ \E capture \in MatchResult(textBlock) : ValueIsFalse(capture)

\* What the pattern /([^\s"'()]+?\.(png|jpg|jpeg))/gi matches inside one word,
\* as an optional value: the word up to the end of its first image extension
ImageMatch(w) ==
    CASE w \in {"page-1.png", "shots/final.jpeg", "LOGIN.JPG"} -> {w}
      [] w = "logo.png?v=3" -> {"logo.png"}
      [] OTHER -> {}

\* The words the pattern matches in
IsImageFilename(w) == ImageMatch(w) # {}

\* path.basename
Basename(w) == IF w = "shots/final.jpeg" THEN "final.jpeg" ELSE w

\* path.join(dir, filename)
PathJoin(dir, filename) == <<dir, filename>>

\* c.type === 'text' && typeof c.text === 'string'
IsTextBlock(c) == c.type = "text"

\* extractScreenshotPath that reads the first text block only, as executeMCP
\* does
extractScreenshotPath_FirstTextBlock(result) ==
    LET texts == SelectSeq(result.content, IsTextBlock)
        fullText == IF texts = <<>> THEN EmptyString ELSE texts[1].text
        words == Flatten(fullText)
        matches == SelectSeq(words, IsImageFilename)
    IN IF fullText = EmptyString \/ matches = <<>> THEN {}
       ELSE { PathJoin(screenshotsDir, Basename(m)) : m \in ImageMatch(Last(matches)) }

\* extractScreenshotPath(result): the path of the last image filename in the
\* text of all text blocks, as an optional value; a result with no content
\* array takes the branches of an empty one
extractScreenshotPath(result) ==
    LET texts == SelectSeq(result.content, IsTextBlock)
        fullText == JoinNewline([k \in 1..Len(texts) |-> texts[k].text])
        words == Flatten(fullText)
        matches == SelectSeq(words, IsImageFilename)
    IN IF fullText = EmptyString \/ matches = <<>> THEN {}
       ELSE { PathJoin(screenshotsDir, Basename(m)) : m \in ImageMatch(Last(matches)) }

\* What the provider does with one callTool request: it resolves with a result
\* {content, isError} after `elapsed` ms, or the call rejects.
Resolve(isError, content, elapsed) ==
    [settle |-> "resolve", isError |-> isError, content |-> content, elapsed |-> elapsed]
Reject(elapsed) ==
    [settle |-> "reject", isError |-> FALSE, content |-> <<>>, elapsed |-> elapsed]

\* what an outcome holds of the provider's answer: all but the time it took
Response(outcome) == [outcome EXCEPT !.elapsed = 0]

ProviderOutcomes ==
    { Resolve(FALSE, <<TextBlock(<< <<"### Ran", "code">> >>)>>, 0),
      Resolve(FALSE, <<TextBlock(<< <<"### Result", "true">>, <<"saved", "page-1.png">> >>)>>, 3),
      Resolve(FALSE, <<TextBlock(<< <<"### Result">>, <<"false">> >>)>>, 4),
      Resolve(FALSE, <<TextBlock(<< <<"### RESULT", "False">> >>)>>, 2),
      Resolve(FALSE, <<TextBlock(<< <<"### Ran", "code">> >>),
                       TextBlock(<< <<"### Result">>, <<"false">> >>)>>, 5),
      Resolve(FALSE, <<ImageBlock, TextBlock(<< <<"### Result", "false">>,
                                                <<"saved", "page-1.png">> >>)>>, 1),
      Resolve(FALSE, <<TextBlock(<< <<"### Result", "true">>, <<"### Result", "false">> >>)>>, 2),
      Resolve(FALSE, <<TextBlock(EmptyString), ImageBlock>>, 1),
      Resolve(FALSE, <<TextBlock(<< <<"logo.png?v=3", "LOGIN.JPG">> >>), ImageBlock,
                       TextBlock(<< <<"saved", "shots/final.jpeg">>, <<"done">> >>)>>, 3),
      Resolve(FALSE, <<>>, 0),
      Resolve(TRUE, <<TextBlock(<< <<"### Result", "true">> >>),
                      TextBlock(<< <<"Error:", "timeout">> >>)>>, 6),
      Reject(7) }

\* executeMCP with the result marker read before the error envelope: a result
\* whose first text block carries a marker other than false is returned as a
\* success whatever isError says
executeMCP_MarkerFirst(outcome) ==
    IF outcome.settle = "reject"
    THEN [threw |-> TRUE, result |-> outcome, duration |-> {},
          message |-> ErrorMessage("provider call rejected", <<>>)]
    ELSE IF ReturnsFalse(outcome)
    THEN [threw |-> TRUE, result |-> outcome, duration |-> {outcome.elapsed},
          message |-> ErrorMessage("MCP Tool returned false", <<>>)]
    ELSE IF \E textBlock \in FirstTextBlock(outcome.content) : MatchResult(textBlock) # {}
    THEN [threw |-> FALSE, result |-> outcome, duration |-> {outcome.elapsed},
          message |-> ErrorMessage("", <<>>)]
    ELSE IF IsErrorEnvelope(outcome)
    THEN [threw |-> TRUE, result |-> outcome, duration |-> {outcome.elapsed},
          message |-> ErrorMessage("MCP Tool Error: ", JSONStringifyContent(outcome.content))]
    ELSE [threw |-> FALSE, result |-> outcome, duration |-> {outcome.elapsed},
          message |-> ErrorMessage("", <<>>)]

\* executeMCP with a deadline of its own: a result that took more than
\* 4 ms is thrown away and the step fails
executeMCP_Deadline(outcome) ==
    IF outcome.settle = "reject"
    THEN [threw |-> TRUE, result |-> outcome, duration |-> {},
          message |-> ErrorMessage("provider call rejected", <<>>)]
    ELSE IF outcome.elapsed > 4
    THEN [threw |-> TRUE, result |-> outcome, duration |-> {outcome.elapsed},
          message |-> ErrorMessage("deadline exceeded", <<>>)]
    ELSE IF IsErrorEnvelope(outcome)
    THEN [threw |-> TRUE, result |-> outcome, duration |-> {outcome.elapsed},
          message |-> ErrorMessage("MCP Tool Error: ", JSONStringifyContent(outcome.content))]
    ELSE IF ReturnsFalse(outcome)
    THEN [threw |-> TRUE, result |-> outcome, duration |-> {outcome.elapsed},
          message |-> ErrorMessage("MCP Tool returned false", <<>>)]
    ELSE [threw |-> FALSE, result |-> outcome, duration |-> {outcome.elapsed},
          message |-> ErrorMessage("", <<>>)]

\* executeMCP after callTool has settled: it returns {result, duration} or
\* throws an error that carries a message and, when the runner made it, the
\* measured duration
executeMCP(outcome) ==
    IF outcome.settle = "reject"
    THEN [threw |-> TRUE, result |-> outcome, duration |-> {},
          message |-> ErrorMessage("provider call rejected", <<>>)]
    ELSE IF IsErrorEnvelope(outcome)
    THEN [threw |-> TRUE, result |-> outcome, duration |-> {outcome.elapsed},
          message |-> ErrorMessage("MCP Tool Error: ", JSONStringifyContent(outcome.content))]
    ELSE IF ReturnsFalse(outcome)
    THEN [threw |-> TRUE, result |-> outcome, duration |-> {outcome.elapsed},
          message |-> ErrorMessage("MCP Tool returned false", <<>>)]
    ELSE [threw |-> FALSE, result |-> outcome, duration |-> {outcome.elapsed},
          message |-> ErrorMessage("", <<>>)]

\* ------------------------------------------------------------- plans
\* One record of the plan: every field may be missing from the planner's JSON
Step(stepIndex, tool, params, isAssertion) ==
    [stepIndex |-> stepIndex, tool |-> tool, params |-> params, isAssertion |-> isAssertion]

\* A character of a JSON string read as a step: it has none of the fields
CharStep == Step({}, {}, {}, {})

\* The tools the provider lists (toolsList.tools)
ProviderTools ==
    { <<"browser_navigate">>, <<"browser_click">>, <<"browser_verify_text">>,
      <<"browser_snapshot">> }

\* The step records the planner may return: each field takes each kind of value
\* the runner distinguishes (a step number inside or outside the test text or
\* none, a listed tool with or without the mcp_ prefix, an unlisted tool or
\* none, parameters or none, an assertion flag or none)
StepKinds ==
    { Step({1}, {<<"browser_navigate">>}, {"url"}, {FALSE}),
      Step({2}, {<<"mcp_", "browser_click">>}, {"ref"}, {}),
      Step({}, {<<"browser_verify_text">>}, {"text"}, {TRUE}),
      Step({MaxLines + 1}, {<<"browser_fly">>}, {"speed"}, {FALSE}),
      Step({1}, {}, {"key"}, {FALSE}),
      Step({2}, {<<"browser_snapshot">>}, {}, {FALSE}) }

RECURSIVE SeqsUpTo(_, _)
SeqsUpTo(S, n) ==
    IF n = 0 THEN {<<>>}
    ELSE LET shorter == SeqsUpTo(S, n - 1)
         IN shorter \cup { Append(q, x) : q \in { r \in shorter : Len(r) = n - 1 }, x \in S }

\* A JSON value as JSON.parse returns it
Doc(kind, steps) == [kind |-> kind, steps |-> steps]
NoDoc == Doc("none", <<>>)
ArrayDocs == { Doc("array", steps) : steps \in SeqsUpTo(StepKinds, MaxPlanLen) }
OtherDocs ==
    { Doc("null", <<>>), Doc("object", <<>>), Doc("number", <<>>),
      Doc("string", <<>>), Doc("string", <<CharStep>>) }
Docs == ArrayDocs \cup OtherDocs

\* plan.length, as an optional value: a number for an array or a string,
\* undefined for another value; reading it from null throws
LengthThrows(doc) == doc.kind = "null"
PlanLength(doc) == IF doc.kind \in {"array", "string"} THEN {Len(doc.steps)} ELSE {}

\* The planner's answer: words of prose, line breaks, fence markers and the
\* JSON text of one value
Tok(t, v) == [t |-> t, v |-> v]
\* the marker that opens a json code block, and the bare three-backtick marker
FenceJson == Tok("fence-json", NoDoc)
Fence == Tok("fence", NoDoc)
NL == Tok("newline", NoDoc)
Prose == Tok("Here is the plan:", NoDoc)
DocTok(d) == Tok("json", d)

\* A plan with a string parameter that holds three backticks, and the same
\* plan with the backticks taken out of the string
FencedDoc == Doc("array", <<Step({1}, {<<"browser_verify_text">>}, {"text with fence"}, {TRUE})>>)
UnfencedDoc == Doc("array", <<Step({1}, {<<"browser_verify_text">>}, {"text"}, {TRUE})>>)

\* The JSON text of FencedDoc: the part before the backticks of the string,
\* the backticks (a bare fence marker) and the part after them
JsonHead == Tok("json-head", FencedDoc)
JsonTail == Tok("json-tail", FencedDoc)
FencedDocText == <<JsonHead, Fence, JsonTail>>

\* A text between a leading fence line and a trailing fence marker
Wrap(open, text) == <<open, NL>> \o text \o <<NL, Fence>>

PlanTexts ==
    { <<DocTok(d)>> : d \in Docs }
    \cup { Wrap(open, <<DocTok(d)>>) :
                open \in {FenceJson, Fence}, d \in { e \in Docs : Len(e.steps) <= 1 } }
    \cup { <<Fence, DocTok(d), Fence, NL>> : d \in { e \in Docs : Len(e.steps) = 0 } }
    \cup { FencedDocText, Wrap(FenceJson, FencedDocText), Wrap(Fence, FencedDocText) }
    \cup { <<>>, <<Prose>>, <<Prose, NL, DocTok(Doc("array", <<>>))>>, <<DocTok(Doc("array", <<>>)), NL, Prose>> }

\* String.prototype.replace with the pattern of one marker and an optional line
\* break after it, global: every occurrence is removed
RECURSIVE RemoveAll(_, _)
RemoveAll(text, tok) ==
    IF text = <<>> THEN <<>>
    ELSE IF Head(text) = tok
    THEN IF Len(text) >= 2 /\ text[2] = NL
         THEN RemoveAll(Tail(Tail(text)), tok)
         ELSE RemoveAll(Tail(text), tok)
    ELSE <<Head(text)>> \o RemoveAll(Tail(text), tok)

\* String.prototype.trim
RECURSIVE TrimStart(_)
TrimStart(text) == IF text # <<>> /\ Head(text) = NL THEN TrimStart(Tail(text)) ELSE text
RECURSIVE TrimEnd(_)
TrimEnd(text) ==
    IF text # <<>> /\ Last(text) = NL THEN TrimEnd(SubSeq(text, 1, Len(text) - 1)) ELSE text
Trim(text) == TrimEnd(TrimStart(text))

\* the bare fence markers left in place
StripFences_JsonOnly(text) == Trim(RemoveAll(text, FenceJson))

\* planJson with the json fence markers removed, then the bare fence markers,
\* then trimmed
StripFences(text) == Trim(RemoveAll(RemoveAll(text, FenceJson), Fence))

IsSolid(tok) == tok # NL

\* JSON.parse, as an optional value: the text of exactly one JSON value, with
\* white space around it, parses; so does the text of FencedDoc, and without
\* the backticks of its string it is the text of UnfencedDoc; anything else
\* is a SyntaxError
JSONParse(text) ==
    LET solid == SelectSeq(text, IsSolid)
    IN IF Len(solid) = 1 /\ solid[1].t = "json" THEN {solid[1].v}
       ELSE IF Trim(text) = FencedDocText THEN {FencedDoc}
       ELSE IF Trim(text) = <<JsonHead, JsonTail>> THEN {UnfencedDoc}
       ELSE {}

\* generateExecutionPlan with a catch that returns an empty plan instead of
\* throwing
generateExecutionPlan_EmptyOnError(content) ==
    IF { plan \in JSONParse(StripFences(content)) : ~LengthThrows(plan) } = {}
    THEN {Doc("array", <<>>)}
    ELSE { plan \in JSONParse(StripFences(content)) : ~LengthThrows(plan) }

\* generateExecutionPlan after the planner has answered: the plan it returns,
\* as an optional value; none when it throws 'Invalid plan JSON'
generateExecutionPlan(content) ==
    { plan \in JSONParse(StripFences(content)) : ~LengthThrows(plan) }

\* ------------------------------------------------------------- test text
\* The lines of a test file: a name line, then lines that start with '-'
StepLine(k) == [dash |-> TRUE, n |-> k]
NameLine == [dash |-> FALSE, n |-> 0]
TestTexts == { <<NameLine>> \o [k \in 1..n |-> StepLine(k)] : n \in 0..MaxLines }

\* testText.split('\n').filter(l => l.trim().startsWith('-'))
StartsWithDash(line) == line.dash
DashLines(text) == SelectSeq(text, StartsWithDash)

\* ------------------------------------------------------------- test files
\* a test file of one '-' line
OneLineText == <<NameLine, StepLine(1)>>

\* The contents of the files getTestFiles returns, in its order: no file, one
\* file of any test text, or several files of one '-' line each
Batches ==
    {<<>>} \cup { <<text>> : text \in TestTexts }
           \cup { [k \in 1..n |-> OneLineText] : n \in 2..MaxFiles }

\* The planner's answers in a batch of several files: prose, an empty plan, a
\* plan of one step, with or without its tool field
ShortPlanTexts ==
    { <<Prose>>, <<DocTok(Doc("array", <<>>))>>,
      <<DocTok(Doc("array", <<Step({1}, {<<"browser_navigate">>}, {"url"}, {FALSE})>>))>>,
      <<DocTok(Doc("array", <<Step({1}, {}, {"key"}, {FALSE})>>))>> }

\* what the planner may answer for the files of a batch
PlannerAnswers(files) == IF Len(files) > 1 THEN ShortPlanTexts ELSE PlanTexts

\* ------------------------------------------------------------- getTestFiles
\* A file name is <<stem, extension>>; a path is a sequence of names relative
\* to the working directory. A disk is the set of its files and the set of
\* its directories.
Name(stem, ext) == <<stem, ext>>
TestsDir == Name("tests", "")
SubDir == Name("sub", "")
OldDir == Name("old", ".yml")

\* the files and directories a disk may hold
FilePaths ==
    { <<TestsDir, Name("a", ".yml")>>, <<TestsDir, Name("b", ".yaml")>>,
      <<TestsDir, Name("B", ".yml")>>, <<TestsDir, Name("notes", ".txt")>>,
      <<TestsDir, Name("c", ".YML")>>,
      <<TestsDir, SubDir, Name("a", ".yml")>>, <<TestsDir, SubDir, Name("z", ".yaml")>>,
      <<Name("login", ".yml")>>, <<Name("notes", ".txt")>> }
DirPaths == { <<TestsDir>>, <<TestsDir, SubDir>>, <<TestsDir, OldDir>> }

\* the directory an entry stands in
Dirname(path) == SubSeq(path, 1, Len(path) - 1)

\* every entry below the working directory stands in a directory of the disk
Disks ==
    { d \in [files : SUBSET FilePaths, dirs : SUBSET DirPaths] :
        \A e \in d.files \cup d.dirs : Dirname(e) = <<>> \/ Dirname(e) \in d.dirs }

\* process.argv[2]
TestPaths ==
    { <<TestsDir>>, <<TestsDir, SubDir>>, <<TestsDir, Name("a", ".yml")>>,
      <<Name("login", ".yml")>>, <<Name("notes", ".txt")>>, <<Name("missing", "")>> }

\* path.resolve: the path below the working directory
PathResolve(path) == <<Name("/cwd", "")>> \o path

\* fs.existsSync, stats.isFile() and stats.isDirectory()
ExistsSync(d, path) == path \in d.files \cup d.dirs
IsFile(d, path) == path \in d.files
IsDirectory(d, path) == path \in d.dirs

\* fs.readdirSync: the names in the directory, files and directories alike
ReaddirSync(d, dir) == { Last(e) : e \in { x \in d.files \cup d.dirs : Dirname(x) = dir } }

\* file.endsWith('.yml') || file.endsWith('.yaml')
EndsWithYml(name) == name[2] \in {".yml", ".yaml"}

\* the names in the order of their UTF-16 code units, as Array.prototype.sort
\* compares strings: capitals stand before small letters
CodeUnitOrder ==
    << Name("B", ".yml"), Name("a", ".yml"), Name("b", ".yaml"), Name("c", ".YML"),
       Name("login", ".yml"), Name("missing", ""), Name("notes", ".txt"),
       Name("old", ".yml"), Name("sub", ""), Name("tests", ""), Name("z", ".yaml") >>
NameOrder(name) == CHOOSE k \in 1..Len(CodeUnitOrder) : CodeUnitOrder[k] = name

\* testFiles.sort() on the paths pushed for one directory, which differ in
\* their last name only
RECURSIVE Sort(_)
Sort(paths) ==
    IF paths = {} THEN <<>>
    ELSE LET first == CHOOSE x \in paths :
                        \A y \in paths : NameOrder(Last(x)) <= NameOrder(Last(y))
         IN <<first>> \o Sort(paths \ {first})

\* what getTestFiles gives: the list it returns or the error it throws
Returned(files) == [threw |-> {}, files |-> files]
Thrown(message) == [threw |-> {message}, files |-> <<>>]

\* getTestFiles(dirPath): a file is returned alone, a directory is scanned
\* for the files in it (readdirSync, one level) and the list is sorted
getTestFiles(d, dirPath) ==
    IF ~ExistsSync(d, dirPath) THEN Thrown("Path does not exist")
    ELSE IF IsFile(d, dirPath)
    THEN IF EndsWithYml(Last(dirPath)) THEN Returned(<<PathResolve(dirPath)>>)
         ELSE Thrown("File must be a .yml or .yaml file")
    ELSE Returned(Sort({ PathResolve(dirPath \o <<file>>) :
                file \in { f \in ReaddirSync(d, dirPath) :
                            IsFile(d, dirPath \o <<f>>) /\ EndsWithYml(f) } }))

\* ------------------------------------------------------------- state
VARIABLES
    disk,           \* the files and directories below the working directory
    testPath,       \* the path getTestFiles is called with
    found,          \* what getTestFiles gave, optional
    pc,             \* where main() and the runner it awaits stand
    testFiles,      \* main's testFiles, each file given by its content
    fileIndex,      \* main's loop index i, counted from 0
    runners,        \* the number of runners main has constructed
    mcpClient,      \* runner.mcpClient: "null" or "client"
    connection,     \* the runner's provider connection: "none", "open" or "closed"
    mcpTools,       \* runner.mcpTools: the names of the discovered tools
    planText,       \* the planner's answer (response.content), optional
    testSteps,      \* runTest's testSteps
    executionPlan,  \* runTest's executionPlan, optional
    i,              \* runTest's loop index, counted from 0
    inflight,       \* the callTool requests the provider has not settled
    calls,          \* every callTool request the provider received, in order
    invokedSteps,   \* for each request of calls, the plan position that issued it
    result,         \* what the last settled callTool gave, optional
    responses,      \* what the provider answered to the runner's calls, in order
    testResults,    \* runner.testResults: {passed, failed, actions}
    testReport,     \* runner.testReport, optional (null before runTest)
    reports,        \* the reports the runner's report generator has written
    allResults,     \* main's allResults
    totalPassed,    \* main's totalPassed
    totalFailed,    \* main's totalFailed
    exitCode        \* the exit code of the process, optional

vars ==
    <<disk, testPath, found, pc, testFiles, fileIndex, runners, mcpClient, connection, mcpTools, planText, testSteps, executionPlan,
      i, inflight, calls, invokedSteps, result, responses, testResults,
      testReport, reports, allResults, totalPassed, totalFailed, exitCode>>

runVars ==
    <<planText, testSteps, executionPlan, i, inflight, calls, invokedSteps, result,
      responses,
      testResults, testReport, reports>>

\* no runner exists yet and the counters main declares are 0
NoRunYet ==
    /\ pc = "start"
    /\ fileIndex = 0
    /\ runners = 0
    /\ mcpClient = "null"
    /\ connection = "none"
    /\ mcpTools = {}
    /\ planText = {}
    /\ testSteps = <<>>
    /\ executionPlan = {}
    /\ i = 0
    /\ inflight = {}
    /\ calls = <<>>
    /\ invokedSteps = <<>>
    /\ result = {}
    /\ responses = <<>>
    /\ testResults = [passed |-> 0, failed |-> 0, actions |-> <<>>]
    /\ testReport = {}
    /\ reports = <<>>
    /\ allResults = <<>>
    /\ totalPassed = 0
    /\ totalFailed = 0
    /\ exitCode = {}

\* main() is called: the files getTestFiles will find are given by their
\* contents
Init ==
    /\ disk = [files |-> {}, dirs |-> {}]
    /\ testPath = <<>>
    /\ found = {}
    /\ testFiles \in Batches
    /\ NoRunYet

\* ------------------------------------------------------------- main's setup
\* process.exit(code): the process ends where it stands
Exit(code) ==
    /\ exitCode' = {code}
    /\ pc' = "exited"

\* main up to its loop: OPENAI_API_KEY, the path argument and getTestFiles are
\* checked; a missing one, a throw or an empty list ends the process with 1
Setup ==
    /\ pc = "start"
    /\ \E ok \in BOOLEAN :
        IF ok /\ testFiles # <<>>
        THEN /\ pc' = "main"
             /\ UNCHANGED exitCode
        ELSE Exit(1)
    /\ UNCHANGED <<disk, testPath, found, testFiles, fileIndex, runners, mcpClient, connection, mcpTools>>
    /\ UNCHANGED <<allResults, totalPassed, totalFailed>>
    /\ UNCHANGED runVars

\* new StatelessMCPRunner() throws in createLLM (a provider it does not
\* support): main rejects outside its try and main().catch exits with 1; the
\* provider is read once, so the first construction is the one that throws
ConstructorThrows ==
    /\ pc = "main"
    /\ fileIndex = 0
    /\ Exit(1)
    /\ UNCHANGED <<disk, testPath, found, testFiles, fileIndex, runners, mcpClient, connection, mcpTools>>
    /\ UNCHANGED <<allResults, totalPassed, totalFailed>>
    /\ UNCHANGED runVars

\* ------------------------------------------------------------- main's try/catch
\* a catch that leaves the loop for the summary, past the finally block
MainCatch_SkipsFinally(message) ==
    /\ allResults' = Append(allResults, [status |-> "FAILED", error |-> {message}])
    /\ totalFailed' = totalFailed + 1
    /\ pc' = "summary"
    /\ UNCHANGED <<totalPassed, exitCode>>

\* catch (err): the test is counted FAILED with the error's message
MainCatch(message) ==
    /\ allResults' = Append(allResults, [status |-> "FAILED", error |-> {message}])
    /\ totalFailed' = totalFailed + 1
    /\ pc' = "finally"
    /\ UNCHANGED <<totalPassed, exitCode>>

\* runTest returned: the test is counted PASSED
MainPassed ==
    /\ allResults' = Append(allResults, [status |-> "PASSED", error |-> {}])
    /\ totalPassed' = totalPassed + 1
    /\ pc' = "finally"
    /\ UNCHANGED <<totalFailed, exitCode>>

\* ------------------------------------------------------------- initializeMCP
\* results kept in a place all runners share
NewTestResults_Shared == testResults

\* this.testResults as the constructor makes it
NewTestResults == [passed |-> 0, failed |-> 0, actions |-> <<>>]

\* main constructs the runner of the file at fileIndex and calls
\* runner.initializeMCP(): the directories are made and the client is created,
\* then connect is awaited; mkdirSync may throw before the client exists
InitializeMCP ==
    /\ pc = "main"
    /\ runners' = runners + 1
    /\ connection' = "none"
    /\ mcpTools' = {}
    /\ planText' = {}
    /\ testSteps' = <<>>
    /\ executionPlan' = {}
    /\ i' = 0
    /\ inflight' = {}
    /\ calls' = <<>>
    /\ invokedSteps' = <<>>
    /\ result' = {}
    /\ responses' = <<>>
    /\ testResults' = NewTestResults
    /\ testReport' = {}
    /\ reports' = <<>>
    /\ \E mkdirOk \in BOOLEAN :
        IF mkdirOk
        THEN /\ mcpClient' = "client"
             /\ pc' = "connect"
             /\ UNCHANGED <<allResults, totalPassed, totalFailed, exitCode>>
        ELSE /\ mcpClient' = "null"
             /\ MainCatch(ErrorMessage("EACCES: mkdir", <<>>))
    /\ UNCHANGED <<disk, testPath, found, testFiles, fileIndex>>

\* await this.mcpClient.connect(transport), then listTools is awaited
Connect ==
    /\ pc = "connect"
    /\ \E ok \in BOOLEAN :
        IF ok
        THEN /\ connection' = "open"
             /\ pc' = "listTools"
             /\ UNCHANGED <<allResults, totalPassed, totalFailed, exitCode>>
        ELSE /\ MainCatch(ErrorMessage("Connection closed", <<>>))
             /\ UNCHANGED connection
    /\ UNCHANGED <<disk, testPath, found, testFiles, fileIndex, runners, mcpClient, mcpTools>>
    /\ UNCHANGED runVars

\* listTools whose rejection is swallowed: the run goes on with no tool
ListTools_SwallowsFailure ==
    /\ pc = "listTools"
    /\ \E ok \in BOOLEAN :
        IF ok
        THEN /\ mcpTools' = ProviderTools
             /\ testSteps' = DashLines(testFiles[fileIndex + 1])
             /\ testReport' = {[testResult |-> "running", actions |-> <<>>, passedActions |-> 0,
                                failedActions |-> 0, totalActions |-> 0, endTime |-> {},
                                duration |-> {}]}
             /\ pc' = "planning"
             /\ UNCHANGED <<allResults, totalPassed, totalFailed, exitCode>>
        ELSE /\ mcpTools' = {}
             /\ testSteps' = DashLines(testFiles[fileIndex + 1])
             /\ testReport' = {[testResult |-> "running", actions |-> <<>>, passedActions |-> 0,
                                failedActions |-> 0, totalActions |-> 0, endTime |-> {},
                                duration |-> {}]}
             /\ pc' = "planning"
             /\ UNCHANGED <<allResults, totalPassed, totalFailed, exitCode>>
    /\ UNCHANGED <<disk, testPath, found, testFiles, fileIndex, runners, mcpClient, connection>>
    /\ UNCHANGED <<planText, executionPlan, i, inflight, calls, invokedSteps, result,
                   responses,
                   testResults, reports>>

\* await this.mcpClient.listTools() settles; on success the tools are stored,
\* main calls runTest, which builds testReport and testSteps and asks the planner
ListTools ==
    /\ pc = "listTools"
    /\ \E ok \in BOOLEAN :
        IF ok
        THEN /\ mcpTools' = ProviderTools
             /\ testSteps' = DashLines(testFiles[fileIndex + 1])
             /\ testReport' = {[testResult |-> "running", actions |-> <<>>, passedActions |-> 0,
                                failedActions |-> 0, totalActions |-> 0, endTime |-> {},
                                duration |-> {}]}
             /\ pc' = "planning"
             /\ UNCHANGED <<allResults, totalPassed, totalFailed, exitCode>>
        ELSE /\ MainCatch(ErrorMessage("Request timed out", <<>>))
             /\ UNCHANGED <<mcpTools, testSteps, testReport>>
    /\ UNCHANGED <<disk, testPath, found, testFiles, fileIndex, runners, mcpClient, connection>>
    /\ UNCHANGED <<planText, executionPlan, i, inflight, calls, invokedSteps, result,
                   responses,
                   testResults, reports>>

\* ------------------------------------------------------------- generateExecutionPlan
\* await generateText settles: the planner answers with a text, which is
\* stripped and parsed, or the request rejects
GeneratePlan ==
    /\ pc = "planning"
    /\ \/ \E content \in PlannerAnswers(testFiles) :
            /\ planText' = {content}
            /\ IF generateExecutionPlan(content) # {}
               THEN /\ executionPlan' = generateExecutionPlan(content)
                    /\ pc' = "loop"
                    /\ UNCHANGED <<allResults, totalPassed, totalFailed, exitCode>>
               ELSE /\ MainCatch(ErrorMessage("Invalid plan JSON: ", <<>>))
                    /\ UNCHANGED executionPlan
       \/ /\ MainCatch(ErrorMessage("planner request failed", <<>>))
          /\ UNCHANGED <<planText, executionPlan>>
    /\ UNCHANGED <<disk, testPath, found, testFiles, fileIndex, runners, mcpClient, connection, mcpTools>>
    /\ UNCHANGED <<testSteps, i, inflight, calls, invokedSteps, result, responses,
                   testResults,
                   testReport, reports>>

\* ------------------------------------------------------------- recordAction
\* x || false for an optional boolean, and x || null for a boolean
OrFalse(flag) == TRUE \in flag
OrNull(b) == IF b THEN {TRUE} ELSE {}

\* the record recordAction pushes
ActionRecord(tool, params, status, assertion, error, duration, screenshot) ==
    [tool |-> tool, params |-> params, status |-> status, assertion |-> OrNull(assertion),
     error |-> error, duration |-> duration, screenshot |-> screenshot]

\* recordAction that counts the passed actions only
recordAction_CountsPassedOnly(results, action) ==
    [actions |-> Append(results.actions, action),
     passed |-> IF action.status = "passed" THEN results.passed + 1 ELSE results.passed,
     failed |-> results.failed]

\* recordAction with unshift in place of push
recordAction_Unshift(results, action) ==
    [actions |-> <<action>> \o results.actions,
     passed |-> IF action.status = "passed" THEN results.passed + 1 ELSE results.passed,
     failed |-> IF action.status = "failed" THEN results.failed + 1 ELSE results.failed]

\* recordAction: one push, and one counter incremented
recordAction(results, action) ==
    [actions |-> Append(results.actions, action),
     passed |-> IF action.status = "passed" THEN results.passed + 1 ELSE results.passed,
     failed |-> IF action.status = "failed" THEN results.failed + 1 ELSE results.failed]

\* ------------------------------------------------------------- runTest's loop
\* step.tool.replace(/^mcp_/, '') and `mcp_${step.tool}`
StripMcpPrefix(name) == IF name # <<>> /\ Head(name) = "mcp_" THEN Tail(name) ELSE name
AddMcpPrefix(name) == <<"mcp_">> \o name

\* i < executionPlan.length (false when length is undefined)
LoopContinues == \E plan \in executionPlan : \E n \in PlanLength(plan) : i < n

\* the step picked by its stepIndex field instead of its place in the plan
StepAt_ByStepIndex(plan, k) ==
    LET named == { n \in 1..Len(plan.steps) : plan.steps[n].stepIndex = {k + 1} }
    IN IF named = {} THEN plan.steps[k + 1] ELSE plan.steps[Min(named)]

\* const step = executionPlan[i]
StepAt(plan, k) == plan.steps[k + 1]

\* testSteps[step.stepIndex - 1] || testSteps[i], as an optional value
OriginalStep(step, k, steps) ==
    LET byIndex == { steps[n] : n \in step.stepIndex \cap (1..Len(steps)) }
    IN IF byIndex # {} THEN byIndex
       ELSE IF k + 1 <= Len(steps) THEN {steps[k + 1]} ELSE {}

\* originalStep.trim() or step.tool.replace throws a TypeError
StepThrows(step, k, steps) == OriginalStep(step, k, steps) = {} \/ step.tool = {}

\* log.tool: JSON.stringify(args).substring throws when args is undefined
LogToolThrows(params) == params = {}

\* mcpClient.callTool({name, arguments})
CallTool(name, arguments) == [id |-> Len(calls) + 1, name |-> name, arguments |-> arguments]

\* One turn of the loop up to the await in executeMCP: the step is read, its
\* text is logged, the tool name is derived and callTool is issued; a throw
\* outside the try leaves runTest, a throw inside it records a failed action
LoopStep ==
    /\ pc = "loop"
    /\ LoopContinues
    /\ \E plan \in executionPlan :
        LET step == StepAt(plan, i) IN
        IF StepThrows(step, i, testSteps)
        THEN /\ MainCatch(ErrorMessage("TypeError: Cannot read properties of undefined", <<>>))
             /\ UNCHANGED <<i, inflight, calls, invokedSteps, testResults>>
        ELSE \E tool \in step.tool :
             IF LogToolThrows(step.params)
             THEN /\ testResults' = recordAction(testResults,
                        ActionRecord(AddMcpPrefix(tool), step.params, "failed",
                            OrFalse(step.isAssertion),
                            {ErrorMessage("TypeError: Cannot read properties of undefined", <<>>)},
                            0, {}))
                  /\ i' = i + 1
                  /\ UNCHANGED <<pc, inflight, calls, invokedSteps>>
                  /\ UNCHANGED <<allResults, totalPassed, totalFailed, exitCode>>
             ELSE /\ inflight' = inflight \cup {CallTool(StripMcpPrefix(tool), step.params)}
                  /\ calls' = Append(calls, CallTool(StripMcpPrefix(tool), step.params))
                  /\ invokedSteps' = Append(invokedSteps, i + 1)
                  /\ pc' = "awaiting"
                  /\ UNCHANGED <<i, testResults>>
                  /\ UNCHANGED <<allResults, totalPassed, totalFailed, exitCode>>
    /\ result' = {}
    /\ UNCHANGED responses
    /\ UNCHANGED <<disk, testPath, found, testFiles, fileIndex, runners, mcpClient, connection, mcpTools>>
    /\ UNCHANGED <<planText, testSteps, executionPlan, testReport, reports>>

\* err.duration || 0
DurationOrZero(duration) == IF duration = {} THEN 0 ELSE CHOOSE d \in duration : TRUE

\* a catch that keeps the screenshot named in the result of the failed call
StepRecord_ScreenshotInCatch(step, tool, done) ==
    ActionRecord(AddMcpPrefix(tool), step.params,
        IF done.threw THEN "failed" ELSE "passed",
        OrFalse(step.isAssertion),
        IF done.threw THEN {done.message} ELSE {},
        DurationOrZero(done.duration), extractScreenshotPath(done.result))

\* the record made for a settled call: by the try when executeMCP returned,
\* by the catch when it threw
StepRecord(step, tool, done) ==
    IF done.threw
    THEN ActionRecord(AddMcpPrefix(tool), step.params, "failed",
            OrFalse(step.isAssertion), {done.message},
            DurationOrZero(done.duration), {})
    ELSE ActionRecord(AddMcpPrefix(tool), step.params, "passed",
            OrFalse(step.isAssertion), {},
            DurationOrZero(done.duration), extractScreenshotPath(done.result))

\* The awaited callTool settles: executeMCP classifies the outcome and the
\* try or the catch records the action; the loop index advances
ToolSettles ==
    /\ pc = "awaiting"
    /\ \E call \in inflight, outcome \in ProviderOutcomes, plan \in executionPlan :
        LET step == StepAt(plan, i)
            done == executeMCP(outcome)
            tool == CHOOSE t \in step.tool : TRUE
        IN /\ inflight' = inflight \ {call}
           /\ result' = {outcome}
           /\ responses' = Append(responses, Response(outcome))
           /\ testResults' = recordAction(testResults, StepRecord(step, tool, done))
    /\ i' = i + 1
    /\ pc' = "loop"
    /\ UNCHANGED <<disk, testPath, found, testFiles, fileIndex, runners, mcpClient, connection, mcpTools>>
    /\ UNCHANGED <<planText, testSteps, executionPlan, calls, invokedSteps, testReport,
                   reports>>
    /\ UNCHANGED <<allResults, totalPassed, totalFailed, exitCode>>

\* ------------------------------------------------------------- finalization
\* The report as runTest fills it after the loop; a time stamp is given by
\* the place that took it
FinalReport(results) ==
    [testResult |-> IF results.failed = 0 THEN "pass" ELSE "fail",
     actions |-> results.actions,
     passedActions |-> results.passed,
     failedActions |-> results.failed,
     totalActions |-> Len(results.actions),
     endTime |-> {"runTest"},
     duration |-> {}]

\* generateReport that recomputes testResult from passedActions
generateReport_PassWhenSomePassed(report) ==
    [report EXCEPT !.endTime = {"generateReport"},
                   !.duration = {"endTime - startTime"},
                   !.testResult = IF report.passedActions > 0 THEN "pass" ELSE "fail"]

\* generateReport: endTime is stamped again, duration is set and testResult
\* is recomputed from failedActions
generateReport(report) ==
    [report EXCEPT !.endTime = {"generateReport"},
                   !.duration = {"endTime - startTime"},
                   !.testResult = IF report.failedActions = 0 THEN "pass" ELSE "fail"]

\* a runner that throws 'Test failed' when no action passed
ThrowsTestFailed_WhenNonePassed(results) == results.passed = 0

\* if (this.testResults.failed > 0) throw new Error('Test failed')
ThrowsTestFailed(results) == results.failed > 0

\* The loop is over: the report is filled and handed to the report generator,
\* whose file writes may throw; then runTest throws 'Test failed' or returns
Finalize ==
    /\ pc = "loop"
    /\ ~LoopContinues
    /\ testReport' = {generateReport(FinalReport(testResults))}
    /\ \E written \in BOOLEAN :
        IF ~written
        THEN /\ MainCatch(ErrorMessage("ENOSPC: write", <<>>))
             /\ UNCHANGED reports
        ELSE /\ reports' = Append(reports, generateReport(FinalReport(testResults)))
             /\ IF ThrowsTestFailed(testResults)
                THEN MainCatch(ErrorMessage("Test failed", <<>>))
                ELSE MainPassed
    /\ UNCHANGED <<disk, testPath, found, testFiles, fileIndex, runners, mcpClient, connection, mcpTools>>
    /\ UNCHANGED <<planText, testSteps, executionPlan, i, inflight, calls, invokedSteps,
                   result, responses, testResults>>

\* ------------------------------------------------------------- cleanup and exit
\* a loop that goes on to the next file only after a test that passed
NextFile_StopsAfterFailure ==
    /\ fileIndex' = fileIndex + 1
    /\ pc' = IF fileIndex + 1 < Len(testFiles) /\ allResults[Len(allResults)].status = "PASSED"
             THEN "main" ELSE "summary"

\* i++ and i < testFiles.length: the next file, or the summary after the last
NextFile ==
    /\ fileIndex' = fileIndex + 1
    /\ pc' = IF fileIndex + 1 < Len(testFiles) THEN "main" ELSE "summary"

\* cleanup with a test that never finds the client
cleanup_NeverCloses(client) == FALSE

\* cleanup: if (this.mcpClient) the client is closed
cleanup(client) == client = "client"

\* finally { await runner.cleanup() }: close is awaited when there is a client
Cleanup ==
    /\ pc = "finally"
    /\ IF cleanup(mcpClient)
       THEN /\ pc' = "closing"
            /\ UNCHANGED fileIndex
       ELSE NextFile
    /\ UNCHANGED <<disk, testPath, found, testFiles, runners, mcpClient, connection, mcpTools>>
    /\ UNCHANGED <<allResults, totalPassed, totalFailed, exitCode>>
    /\ UNCHANGED runVars

\* await this.mcpClient.close() settles: the connection, when one was open, is
\* closed and main goes on; when close rejects, main rejects out of its
\* finally block and main().catch exits with 1
CloseSettles ==
    /\ pc = "closing"
    /\ \E ok \in BOOLEAN :
        IF ok
        THEN /\ connection' = IF connection = "open" THEN "closed" ELSE connection
             /\ NextFile
             /\ UNCHANGED exitCode
        ELSE /\ Exit(1)
             /\ UNCHANGED <<connection, fileIndex>>
    /\ UNCHANGED <<disk, testPath, found, testFiles, runners, mcpClient, mcpTools>>
    /\ UNCHANGED <<allResults, totalPassed, totalFailed>>
    /\ UNCHANGED runVars

\* the summary is printed and the process exits: 1 when a test failed
Summary ==
    /\ pc = "summary"
    /\ Exit(IF totalFailed > 0 THEN 1 ELSE 0)
    /\ UNCHANGED <<disk, testPath, found, testFiles, fileIndex, runners, mcpClient, connection, mcpTools, allResults, totalPassed, totalFailed>>
    /\ UNCHANGED runVars

\* ------------------------------------------------------------- process handlers
\* where main waits for a promise, so that the event loop can run a handler
AwaitPoints == {"connect", "listTools", "planning", "awaiting", "closing"}

\* process.on('SIGINT'): a warning is logged and the process exits with 0
Interrupt ==
    /\ pc \in AwaitPoints
    /\ Exit(0)
    /\ UNCHANGED <<disk, testPath, found, testFiles, fileIndex, runners, mcpClient, connection, mcpTools>>
    /\ UNCHANGED <<allResults, totalPassed, totalFailed>>
    /\ UNCHANGED runVars

\* process.on('unhandledRejection'): a promise nobody awaits rejects (in the
\* client library or the transport) and the process exits with 1
UnhandledRejection ==
    /\ pc \in AwaitPoints
    /\ Exit(1)
    /\ UNCHANGED <<disk, testPath, found, testFiles, fileIndex, runners, mcpClient, connection, mcpTools>>
    /\ UNCHANGED <<allResults, totalPassed, totalFailed>>
    /\ UNCHANGED runVars

Next ==
    \/ Setup
    \/ ConstructorThrows
    \/ InitializeMCP
    \/ Connect
    \/ ListTools
    \/ GeneratePlan
    \/ LoopStep
    \/ ToolSettles
    \/ Finalize
    \/ Cleanup
    \/ CloseSettles
    \/ Summary
    \/ Interrupt
    \/ UnhandledRejection

Spec == Init /\ [][Next]_vars

\* ------------------------------------------------------------- getTestFiles alone
\* getTestFiles is called with a path on a disk
FilesInit ==
    /\ disk \in Disks
    /\ testPath \in TestPaths
    /\ found = {}
    /\ testFiles = <<>>
    /\ NoRunYet

\* testFiles = getTestFiles(testPath)
GetTestFiles ==
    /\ found = {}
    /\ found' = {getTestFiles(disk, testPath)}
    /\ UNCHANGED <<disk, testPath, testFiles, fileIndex, runners, mcpClient, connection,
                   mcpTools, pc, allResults, totalPassed, totalFailed, exitCode>>
    /\ UNCHANGED runVars

FilesNext == GetTestFiles

FilesSpec == FilesInit /\ [][FilesNext]_vars

\* ------------------------------------------------------------- properties
\* runTest is over: it returned or threw, and main has counted the test
RunTestOver == runners > 0 /\ Len(allResults) = runners

Actions == testResults.actions

\* the record is the one the loop makes for the step: its tool and parameters
RecordOf(record, step) ==
    /\ record.params = step.params
    /\ \E tool \in step.tool : record.tool = AddMcpPrefix(tool)

\* the text of all text blocks of a result, joined
AllText(content) ==
    LET texts == SelectSeq(content, IsTextBlock)
    IN JoinNewline([k \in 1..Len(texts) |-> texts[k].text])

\* the joined text, inspected for the marker line, gives the value 'false'
HasFalseMarker(text) == \E capture \in MatchResult(text) : ValueIsFalse(capture)

\* the number of callTool requests issued for plan position k
TimesInvoked(k) == Cardinality({ n \in 1..Len(invokedSteps) : invokedSteps[n] = k })

\* C1: once runTest is over, a plan that is an array of N steps has produced
\* exactly N action records, the k-th record made for the k-th step.
C1_ExactlyNRecordsInPlanOrder ==
    \A plan \in executionPlan :
        (RunTestOver /\ plan.kind = "array") =>
            /\ Len(Actions) = Len(plan.steps)
            /\ \A k \in 1..Len(Actions) : RecordOf(Actions[k], plan.steps[k])

\* C2: once runTest is over, every plan step after a step recorded failed has
\* been invoked, and the error main caught is not a per-step error.
C2_FailedStepNeverHaltsLoop ==
    \A plan \in executionPlan :
        (RunTestOver /\ plan.kind = "array") =>
            \A k \in 1..Len(Actions) :
                Actions[k].status = "failed" =>
                    \A m \in (k + 1)..Len(plan.steps) : TimesInvoked(m) >= 1

\* C3: a settled result with isError = false whose joined text blocks hold a
\* '### Result' marker with the value false is recorded failed.
C3_FalseMarkerInAnyBlockFails ==
    \A outcome \in result :
        (outcome.settle = "resolve" /\ ~outcome.isError
            /\ HasFalseMarker(AllText(outcome.content)))
        => Last(Actions).status = "failed"

\* C4: a settled result with isError = true is recorded failed with the message
\* built from its payload, whatever result marker its text carries.
C4_ErrorEnvelopeRecordedFailed ==
    \A outcome \in result :
        (outcome.settle = "resolve" /\ outcome.isError)
        => /\ Last(Actions).status = "failed"
           /\ Last(Actions).error = {ErrorMessage("MCP Tool Error: ", outcome.content)}

\* C4 witness: an error envelope whose text says '### Result true' was recorded
C4_Witness ==
    \E outcome \in result :
        /\ outcome.isError
        /\ \E capture \in MatchResult(AllText(outcome.content)) : capture = <<"true">>
        /\ Last(Actions).status = "failed"

\* C5: a step is recorded passed exactly when its call resolved with
\* isError = false and no '### Result' marker of the joined text has the value
\* false; every record is passed or failed.
C5_PassedExactlyWhenNoFalseMarker ==
    /\ \A k \in 1..Len(Actions) : Actions[k].status \in {"passed", "failed"}
    /\ \A outcome \in result :
        Last(Actions).status = "passed"
        <=> (outcome.settle = "resolve" /\ ~outcome.isError
                /\ ~HasFalseMarker(AllText(outcome.content)))

\* C6: at every turn of the loop each recorded step has been invoked exactly
\* once, so the provider has received as many requests as steps were executed.
C6_InvokedExactlyOncePerStep ==
    /\ \A k \in 1..Len(Actions) : TimesInvoked(k) = 1
    /\ inflight = {} => Len(calls) = Len(Actions)

\* C7: at most one request is in flight; it belongs to the step at the loop
\* index, whose predecessors are all recorded; the requests received so far
\* are those of increasing plan positions, each carrying the tool name and the
\* parameters of the step at its position, whatever the stepIndex fields say.
C7_SequentialInPlanOrder ==
    /\ Cardinality(inflight) <= 1
    /\ Len(invokedSteps) = Len(calls)
    /\ \A call \in inflight :
        /\ call = Last(calls)
        /\ Last(invokedSteps) = i + 1
        /\ Len(Actions) = i
    /\ \A n \in 1..(Len(invokedSteps) - 1) : invokedSteps[n] < invokedSteps[n + 1]
    /\ \A n \in 1..Len(calls) : \A plan \in executionPlan :
        /\ calls[n].arguments = plan.steps[invokedSteps[n]].params
        /\ \E tool \in plan.steps[invokedSteps[n]].tool : calls[n].name = StripMcpPrefix(tool)

\* C7 witness: the second step of a plan is in flight, the first one recorded,
\* in a plan whose stepIndex fields run against its order
C7_Witness ==
    \E plan \in executionPlan :
        /\ inflight # {}
        /\ i = 1
        /\ Len(Actions) = 1
        /\ plan.steps[1].stepIndex = {2}
        /\ plan.steps[2].stepIndex = {1}

\* C8: when the planner's answer does not parse as JSON, no request reaches the
\* provider, no action is recorded, no report is made, and main has caught the
\* error runTest threw.
C8_UnparsablePlanAborts ==
    \A content \in planText :
        JSONParse(StripFences(content)) = {} =>
            /\ calls = <<>>
            /\ Actions = <<>>
            /\ reports = <<>>
            /\ executionPlan = {}
            /\ RunTestOver
            /\ Last(allResults) = [status |-> "FAILED",
                                    error |-> {ErrorMessage("Invalid plan JSON: ", <<>>)}]

\* C8 witness: the run ended after an answer that is prose only
C8_Witness ==
    /\ planText = {<<Prose>>}
    /\ pc = "exited"
    /\ totalFailed = 1

\* C9: every request the provider receives names a discovered tool.
C9_OnlyCatalogToolsInvoked ==
    \A n \in 1..Len(calls) : calls[n].name \in mcpTools

\* C10: when the planner's answer parses to a JSON value that is not an array,
\* the run is aborted with 'Invalid plan JSON': nothing is recorded and no
\* report is made.
C10_NonArrayPlanRejected ==
    \A content \in planText :
        \A doc \in JSONParse(StripFences(content)) :
            doc.kind # "array" =>
                /\ Actions = <<>>
                /\ reports = <<>>
                /\ \A report \in testReport : report.testResult # "pass"
                /\ RunTestOver =>
                    Last(allResults).error = {ErrorMessage("Invalid plan JSON: ", <<>>)}

\* the summary has been printed and main has returned
SummaryPrinted == pc = "exited" /\ runners > 0 /\ fileIndex = Len(testFiles)

\* the error main caught for the test it counted last
CaughtError(name) == Last(allResults).error = {ErrorMessage(name, <<>>)}

\* C11: whenever the driver stands before the next test, prints the summary
\* or has returned after it, the connection of the run that just ended is not
\* open, whichever way that run ended.
C11_ReleasedBeforeDriverGoesOn ==
    (pc \in {"main", "summary"} \/ SummaryPrinted) => connection # "open"

\* C11 witness: the driver stands before the second test after a first run
\* that an uncaught TypeError ended, and its connection is closed
C11_Witness ==
    /\ pc = "main"
    /\ fileIndex = 1
    /\ CaughtError("TypeError: Cannot read properties of undefined")
    /\ connection = "closed"

\* the result main recorded is a run-level error: the plan did not parse, or
\* the provider connection failed in connect or in listTools
RunLevelError(entry) ==
    entry.error \in { {ErrorMessage("Invalid plan JSON: ", <<>>)},
                      {ErrorMessage("Connection closed", <<>>)},
                      {ErrorMessage("Request timed out", <<>>)} }

FinalizedReports ==
    { report \in testReport : report.testResult # "running" }
        \cup { reports[n] : n \in 1..Len(reports) }

\* C13: in every finalized report totalActions is passedActions plus
\* failedActions and is the length of the report's actions list.
C13_CountsAddUp ==
    \A report \in FinalizedReports :
        /\ report.totalActions = report.passedActions + report.failedActions
        /\ report.totalActions = Len(report.actions)

\* C13 witness: a finalized report with a passed and a failed action
C13_Witness ==
    \E report \in FinalizedReports :
        /\ report.passedActions = 1
        /\ report.failedActions = 1
        /\ Len(report.actions) = 2

\* C14: in every finalized report testResult is 'pass' exactly when
\* failedActions is 0, both as runTest computes it from the runner's counters
\* and as the report generator has recomputed it.
C14_PassIffNoFailedAction ==
    \A report \in FinalizedReports :
        /\ report.testResult = "pass" <=> report.failedActions = 0
        /\ FinalReport(testResults).testResult = "pass" <=> report.failedActions = 0

\* C14 witness: the report of an empty plan, finalized with no action at all
\* and 'pass'
C14_Witness ==
    /\ executionPlan = {Doc("array", <<>>)}
    /\ \E report \in FinalizedReports :
        /\ report.totalActions = 0
        /\ report.testResult = "pass"

\* every step of the plan names a tool and carries parameters
WellFormed(plan) ==
    \A k \in 1..Len(plan.steps) : plan.steps[k].tool # {} /\ plan.steps[k].params # {}

\* C15: once runTest is over for a plan of well-formed steps whose length
\* differs from the number of '-' lines, every step has been invoked and
\* recorded and a report has been generated, unless writing the report failed.
C15_LengthMismatchNotFatal ==
    \A plan \in executionPlan :
        (/\ RunTestOver
         /\ plan.kind = "array"
         /\ WellFormed(plan)
         /\ Len(plan.steps) # Len(testSteps)
         /\ ~CaughtError("ENOSPC: write"))
        => /\ Len(calls) = Len(plan.steps)
           /\ Len(Actions) = Len(plan.steps)
           /\ Len(reports) = 1

\* C16: once runTest is over with action records made, a report holding every
\* one of them has been generated, unless writing the report itself failed.
C16_ReportHoldsEveryRecord ==
    (RunTestOver /\ Actions # <<>> /\ ~CaughtError("ENOSPC: write"))
    => /\ reports # <<>>
       /\ Last(reports).actions = Actions

\* the run ended before its first step: connect or listTools rejected, or the
\* planner's answer is not the text of a JSON value whose length can be read
AbortedRun ==
    /\ RunTestOver
    /\ \/ mcpClient = "client" /\ connection = "none"
       \/ connection # "none" /\ mcpTools = {}
       \/ \E content \in planText :
            \A doc \in JSONParse(StripFences(content)) : LengthThrows(doc)

\* C17 as stated: the outcome main records for an aborted run is not the
\* FAILED of a run with a failed action; nothing was invoked or recorded.
C17_AbortedDistinctFromFailed ==
    AbortedRun =>
        /\ Last(allResults).status # "FAILED"
        /\ calls = <<>>
        /\ Actions = <<>>

\* C17: main records an aborted run with the status FAILED, the status of a
\* run with a failed action; its error is the run-level error, while a run
\* recorded with 'Test failed' has a failed action; in the aborted run nothing
\* was invoked or recorded and no report was made.
C17_AbortedRecordedAsFailed ==
    /\ AbortedRun =>
        /\ Last(allResults).status = "FAILED"
        /\ RunLevelError(Last(allResults))
        /\ calls = <<>>
        /\ Actions = <<>>
        /\ FinalizedReports = {}
    /\ (RunTestOver /\ CaughtError("Test failed")) =>
        /\ Last(allResults).status = "FAILED"
        /\ testResults.failed > 0

\* C17 witness: a run that listTools ended, recorded by main
C17_Witness ==
    /\ AbortedRun
    /\ connection # "none"
    /\ CaughtError("Request timed out")
    /\ totalFailed = 1

\* C18: the process exits with 0 only when every test of the batch was run
\* and counted PASSED, and with 1 when a test was counted FAILED.
C18_ExitCodeTellsTheBatch ==
    /\ exitCode = {0} => (testFiles # <<>> /\ totalPassed = Len(testFiles))
    /\ (pc = "exited" /\ totalFailed > 0) => exitCode = {1}

\* the text stands between a leading fence line and a trailing fence marker
IsWrapped(text) ==
    /\ Len(text) >= 4
    /\ text[1] \in {FenceJson, Fence}
    /\ text[2] = NL
    /\ text[Len(text) - 1] = NL
    /\ text[Len(text)] = Fence

\* the same text without its fence lines
Unwrap(text) == SubSeq(text, 3, Len(text) - 2)

\* C19: the plan made of an answer wrapped in fence lines is the plan the
\* same answer gives without them, or neither gives a plan.
C19_FencedParsesAsUnfenced ==
    \A content \in planText :
        IsWrapped(content) => executionPlan = generateExecutionPlan(Unwrap(content))

\* C19 witness: a plan whose string parameter holds three backticks, wrapped
\* in fence lines, has been parsed and its loop is about to start
C19_Witness ==
    /\ planText = {Wrap(FenceJson, FencedDocText)}
    /\ executionPlan = {UnfencedDoc}
    /\ generateExecutionPlan(FencedDocText) = {UnfencedDoc}
    /\ pc = "loop"
    /\ i = 0

\* the JSON arrays written in a text
ArraysIn(text) ==
    { text[k].v : k \in { n \in 1..Len(text) : text[n].t = "json" /\ text[n].v.kind = "array" } }

\* C20: when the planner's answer is a JSON array with prose before or after
\* it, the plan is that array.
C20_ProseAroundArrayTolerated ==
    \A content \in planText :
        (ArraysIn(content) # {} /\ \E k \in 1..Len(content) : content[k] = Prose)
        => executionPlan = ArraysIn(content)

\* the filename-like tokens of a text, in reading order
FilenameTokens(text) == SelectSeq(Flatten(text), IsImageFilename)

C22_CountersFollowAppends ==
    /\ [](testResults.passed + testResults.failed = Len(Actions))
    /\ [][runners' = runners =>
            /\ testResults'.passed >= testResults.passed
            /\ testResults'.failed >= testResults.failed
            /\ Len(testResults'.actions) \in {Len(Actions), Len(Actions) + 1}
            /\ (testResults'.passed - testResults.passed)
                    + (testResults'.failed - testResults.failed)
                = Len(testResults'.actions) - Len(Actions)]_vars

\* C22 witness: one passed and one failed record are made and the report is
\* not finalized yet
C22_Witness ==
    /\ pc = "loop"
    /\ \A report \in testReport : report.testResult = "running"
    /\ testResults.passed = 1
    /\ testResults.failed = 1
    /\ Len(Actions) = 2

\* the sequence p is the beginning of the sequence q
IsPrefix(p, q) == Len(p) <= Len(q) /\ SubSeq(q, 1, Len(p)) = p

\* C23: within a run every step leaves the records already made in place and
\* unchanged, and the actions of a finalized report are the records made.
C23_RecordsNeverChange ==
    /\ [](\A report \in FinalizedReports : report.actions = Actions)
    /\ [][runners' = runners => IsPrefix(Actions, testResults'.actions)]_vars

\* C23 witness: the report of two records has been generated
C23_Witness ==
    /\ Len(Actions) = 2
    /\ Len(reports) = 1
    /\ Actions[1] # Actions[2]
    /\ pc = "finally"

\* C24: a finalized report is the report as runTest filled it when the loop
\* completed: nothing has written a field of it since.
C24_FinalizedOnceThenReadOnly ==
    \A report \in FinalizedReports : report = FinalReport(testResults)

\* C25: the record of a step whose provider call settled and failed carries
\* the step's tool and parameters, an error text that is not empty and the
\* time that elapsed around the call.
C25_FailedRecordCarriesDuration ==
    \A outcome \in result : \A plan \in executionPlan :
        Last(Actions).status = "failed" =>
            /\ RecordOf(Last(Actions), plan.steps[Len(Actions)])
            /\ \E error \in Last(Actions).error : error.msg # ""
            /\ Last(Actions).duration = outcome.elapsed

\* how far a run has come
Rank(p) ==
    CASE p = "start" -> 0
      [] p = "connect" -> 1
      [] p = "listTools" -> 2
      [] p = "planning" -> 3
      [] p \in {"loop", "awaiting"} -> 4
      [] p = "finally" -> 5
      [] p = "closing" -> 6
      [] OTHER -> 7

PayloadSize(content) ==
    Len(Flatten(Flatten([k \in 1..Len(content) |-> content[k].text])))

\* C27: the message recorded for an error envelope holds an excerpt of the
\* payload, shorter than a payload of several blocks.
C27_ErrorMessageIsExcerpt ==
    \A outcome \in result :
        (outcome.settle = "resolve" /\ outcome.isError /\ Len(outcome.content) > 1)
        => \A error \in Last(Actions).error :
            PayloadSize(error.payload) < PayloadSize(outcome.content)

\* C28: a runner starts with counters at 0, an empty actions list and no
\* report, and in every state its records are those of the steps of its own
\* plan, in their places, whatever the earlier tests of the batch recorded.
C28_NoStateSharedAcrossRuns ==
    /\ [](/\ executionPlan = {} => Actions = <<>>
          /\ \A plan \in executionPlan :
                /\ Len(Actions) <= Len(plan.steps)
                /\ \A k \in 1..Len(Actions) : RecordOf(Actions[k], plan.steps[k])
          /\ \A report \in FinalizedReports : report.totalActions = Len(Actions))
    /\ [][runners' = runners + 1 =>
            /\ testResults' = [passed |-> 0, failed |-> 0, actions |-> <<>>]
            /\ testReport' = {}
            /\ mcpTools' = {}]_vars

\* C28 witness: the second test of a batch ends with a report of its one
\* passed step after a first test that recorded a failed step
C28_Witness ==
    /\ runners = 2
    /\ allResults[1].error = {ErrorMessage("Test failed", <<>>)}
    /\ Len(allResults) = 2
    /\ allResults[2].status = "PASSED"
    /\ \E report \in FinalizedReports :
        /\ report.totalActions = 1
        /\ report.passedActions = 1
        /\ report.failedActions = 0

\* C30: the assertion field of every record is a boolean, the isAssertion
\* flag of the step it records: true for an assertion step, false for a step
\* that is no assertion or has no flag.
C30_AssertionIsTheStepsFlag ==
    \A plan \in executionPlan :
        \A k \in 1..Len(Actions) :
            k <= Len(plan.steps) =>
                Actions[k].assertion = {OrFalse(plan.steps[k].isAssertion)}

\* what a run shows of an action: its status, error and screenshot reference
Observed(record) ==
    [status |-> record.status, error |-> record.error, screenshot |-> record.screenshot]

\* nothing invoked and nothing recorded
NoOutput == [tools |-> <<>>, records |-> <<>>]

\* The tools runTest's loop invokes and the actions it records from plan
\* position k on, after `out`, when the provider answers with `answers` in
\* order: the loop of runTest read as a function of the plan, the steps of the
\* test text and the answers alone. It stops where the loop ends, where a
\* step throws outside the try, and at a call the provider has not answered.
RECURSIVE Replay(_, _, _, _, _)
Replay(plan, steps, answers, k, out) ==
    IF ~ \E n \in PlanLength(plan) : k < n THEN out
    ELSE LET step == StepAt(plan, k) IN
         IF StepThrows(step, k, steps) THEN out
         ELSE LET tool == CHOOSE t \in step.tool : TRUE IN
              IF LogToolThrows(step.params)
              THEN Replay(plan, steps, answers, k + 1,
                     [out EXCEPT !.records = Append(@,
                        [status |-> "failed",
                         error |-> {ErrorMessage("TypeError: Cannot read properties of undefined", <<>>)},
                         screenshot |-> {}])])
              ELSE LET called == [out EXCEPT !.tools = Append(@, StripMcpPrefix(tool))] IN
                   IF answers = <<>> THEN called
                   ELSE LET done == executeMCP(Head(answers)) IN
                        Replay(plan, steps, Tail(answers), k + 1,
                          [called EXCEPT !.records = Append(@,
                             IF done.threw
                             THEN [status |-> "failed", error |-> {done.message},
                                   screenshot |-> {}]
                             ELSE [status |-> "passed", error |-> {},
                                   screenshot |-> extractScreenshotPath(done.result)])])

\* the number of records of the sequence with the status
CountStatus(records, status) ==
    Cardinality({ k \in 1..Len(records) : records[k].status = status })

\* C29: whenever the runner waits for the provider or runTest is over, the
\* tools invoked, the statuses, errors and screenshot references recorded, the
\* passed and failed counts and the testResult are those that the plan, the
\* steps of the test text and the provider's answers so far determine, so two
\* runs that agree on these agree on all of them.
C29_OutputsReplayable ==
    (pc = "awaiting" \/ RunTestOver) =>
        \A plan \in executionPlan :
            LET replayed == Replay(plan, testSteps, responses, 0, NoOutput) IN
            /\ [k \in 1..Len(calls) |-> calls[k].name] = replayed.tools
            /\ [k \in 1..Len(Actions) |-> Observed(Actions[k])] = replayed.records
            /\ testResults.passed = CountStatus(replayed.records, "passed")
            /\ testResults.failed = CountStatus(replayed.records, "failed")
            /\ \A report \in FinalizedReports :
                /\ report.passedActions = CountStatus(replayed.records, "passed")
                /\ report.failedActions = CountStatus(replayed.records, "failed")
                /\ report.testResult =
                     IF CountStatus(replayed.records, "failed") = 0 THEN "pass" ELSE "fail"

\* C29 witness: a run of two steps is over, the provider answered both calls,
\* the first action passed with a screenshot and the second failed
C29_Witness ==
    /\ RunTestOver
    /\ Len(responses) = 2
    /\ Len(Actions) = 2
    /\ Actions[1].status = "passed"
    /\ Actions[1].screenshot # {}
    /\ Actions[2].status = "failed"
    /\ \E report \in FinalizedReports : report.testResult = "fail"

\* C31 as stated: once runTest is over, it has thrown 'Test failed' exactly
\* when at least one action was recorded failed.
C31_TestFailedIffActionFailed ==
    RunTestOver => (CaughtError("Test failed") <=> testResults.failed > 0)

\* C31: once runTest is over, it has thrown 'Test failed' exactly when an
\* action was recorded failed and the report was finalized and generated; a
\* run with a failed action is counted FAILED whatever the error; and the
\* test is counted PASSED exactly when the connection was opened, a plan was
\* made, the report was generated and no action failed.
C31_FailureSignalledAfterReport ==
    RunTestOver =>
        /\ CaughtError("Test failed") <=> (testResults.failed > 0 /\ reports # <<>>)
        /\ CaughtError("Test failed") =>
                \E report \in testReport :
                    /\ report.testResult = "fail"
                    /\ report.actions = Actions
                    /\ Last(reports) = report
        /\ testResults.failed > 0 => Last(allResults).status = "FAILED"
        /\ Last(allResults).status = "PASSED" <=>
                /\ connection # "none"
                /\ executionPlan # {}
                /\ reports # <<>>
                /\ testResults.failed = 0

\* C31 witness: runTest threw 'Test failed' after a report of a passed and a
\* failed action was generated
C31_Witness ==
    /\ RunTestOver
    /\ CaughtError("Test failed")
    /\ testResults.passed = 1
    /\ testResults.failed = 1
    /\ Len(reports) = 1

C33_OneConnectionAtATime ==
    /\ [][runners' = runners + 1 => connection # "open" /\ connection' = "none"]_vars
    /\ [][(connection' = "open" /\ connection # "open") =>
            pc = "connect" /\ connection = "none" /\ runners' = runners]_vars
    /\ [][(connection' = "closed" /\ connection # "closed") =>
            pc = "closing" /\ connection = "open" /\ runners' = runners]_vars
    /\ [][(pc' = "closing" /\ pc # "closing") =>
            pc = "finally" /\ connection # "closed"]_vars
    /\ [][(connection = "closed" /\ runners' = runners) => connection' = "closed"]_vars

\* C33 witness: the second runner of a batch holds the open connection after
\* the first test ran on its own connection and passed
C33_Witness ==
    /\ runners = 2
    /\ allResults[1].status = "PASSED"
    /\ connection = "open"
    /\ pc = "awaiting"

\* C34: whenever the process has exited, after the summary or through a
\* handler, no provider connection that was opened is still open.
C34_ClosedBeforeExit ==
    pc = "exited" => connection # "open"

\* the screenshot paths that the words of a result's own text blocks name
PathsNamedIn(content) ==
    LET words == Flatten(AllText(content))
    IN { <<screenshotsDir, Basename(m)>> :
            m \in UNION { ImageMatch(words[n]) : n \in 1..Len(words) } }

\* C35: no record with status failed has a screenshot, and a step that
\* appends a record with a screenshot appends a passed record for a call that
\* has just settled, with a path that the text of that call's own result
\* names.
C35_ScreenshotOnlyOnPassed ==
    /\ [](\A k \in 1..Len(Actions) :
            Actions[k].status = "failed" => Actions[k].screenshot = {})
    /\ [][(runners' = runners /\ Len(testResults'.actions) > Len(Actions)
            /\ Last(testResults'.actions).screenshot # {}) =>
            /\ Last(testResults'.actions).status = "passed"
            /\ Len(responses') = Len(responses) + 1
            /\ Last(testResults'.actions).screenshot
                    \subseteq PathsNamedIn(Last(responses').content)]_vars

\* C35 witness: after a passed step recorded with its screenshot, a step
\* whose result names an image file but reports false is recorded failed
C35_Witness ==
    /\ Len(Actions) = 2
    /\ Actions[1].status = "passed"
    /\ Actions[1].screenshot # {}
    /\ Actions[2].status = "failed"
    /\ Actions[2].screenshot = {}
    /\ Len(responses) = 2
    /\ PathsNamedIn(responses[2].content) # {}

\* C36: for every call the provider received, the record of the step that
\* issued it stores a tool name that, with one leading mcp_ removed, is the
\* name the provider was called with.
C36_RecordedNameIsInvokedName ==
    \A n \in 1..Len(calls) :
        invokedSteps[n] <= Len(Actions) =>
            StripMcpPrefix(Actions[invokedSteps[n]].tool) = calls[n].name

\* the .yml and .yaml files of the disk anywhere below the directory
TestFilesBelow(d, dir) ==
    { f \in d.files : Len(f) > Len(dir) /\ IsPrefix(dir, f) /\ EndsWithYml(Last(f)) }

\* C37: called with a directory, getTestFiles returns the absolute paths of
\* all .yml and .yaml files below it, those of nested directories included,
\* in sorted order; called with a path that does not exist or with a file of
\* another extension, it throws.
C37_FindsNestedTestFiles ==
    \A r \in found :
        IF IsDirectory(disk, testPath)
        THEN /\ r.threw = {}
             /\ { r.files[n] : n \in 1..Len(r.files) }
                    = { PathResolve(f) : f \in TestFilesBelow(disk, testPath) }
             /\ \A m, n \in 1..Len(r.files) :
                    (m < n /\ Dirname(r.files[m]) = Dirname(r.files[n]))
                    => NameOrder(Last(r.files[m])) < NameOrder(Last(r.files[n]))
        ELSE IF IsFile(disk, testPath) /\ EndsWithYml(Last(testPath))
        THEN r.threw = {} /\ r.files = <<PathResolve(testPath)>>
        ELSE r.threw # {}

====
